---------------------------- MODULE Spec2Model ----------------------------
(***************************************************************************)
(* K-14T fact memory: the MemoryStore class of memory_store.py as driven   *)
(* by core_loop.py, and the memory helpers of ai_loop.py.                  *)
(*                                                                         *)
(* A text is a sequence of one-character strings, so that strip, lower,    *)
(* split, join and the character tests of the Python code are computed     *)
(* rather than assumed.  The log file is a sequence of lines plus a flag   *)
(* telling whether its last line still lacks the terminating newline.      *)
(***************************************************************************)
EXTENDS Integers, Sequences, FiniteSets, TLC

\* ------------------------------------------------------------------ bounds
\* Calls to the add operation in one run (each call reads the clock once).
MaxAdds == 2
\* Largest limit / max_items argument tried by the listing and selection calls.
MaxLimit == 2
\* Process crashes (kill during an append) in one run.
MaxCrashes == 1
\* Entries removed by delete_index in one run.
MaxDeletes == 2
\* Longest log that exists before the program starts.
MaxStored == 3

\* ------------------------------------------------------- program constants
\* memory_store.py: def list_facts(self, limit=50)
DefaultListLimit == 50
\* core_loop.py: facts = memory.list_facts(20)
MemListLimit == 20
\* ai_loop.py: pref = [...][-3:]
PrefKeep == 3

\* -------------------------------------------------------------- characters
UpperChars == << "A", "B", "C", "D", "E", "F", "G", "H", "I", "J", "K", "L", "M",
                 "N", "O", "P", "Q", "R", "S", "T", "U", "V", "W", "X", "Y", "Z" >>
LowerChars == << "a", "b", "c", "d", "e", "f", "g", "h", "i", "j", "k", "l", "m",
                 "n", "o", "p", "q", "r", "s", "t", "u", "v", "w", "x", "y", "z" >>
DigitChars == << "0", "1", "2", "3", "4", "5", "6", "7", "8", "9" >>
\* The characters of the model in code point order (str comparison in Python
\* is by code point): tab, space, ', -, ?, digits, upper case, lower case.
CharOrder == << "\t", " ", "'", "-" >> \o DigitChars \o << "?" >> \o UpperChars \o LowerChars

Range(s) == { s[i] : i \in 1..Len(s) }

Ord(c) == CHOOSE i \in 1..Len(CharOrder) : CharOrder[i] = c

\* str.isspace on one character
IsSpace(c) == c \in { " ", "\t" }

\* str.isalnum on one character
IsAlnum(c) == c \in Range(UpperChars) \cup Range(LowerChars) \cup Range(DigitChars)

\* str.lower on one character
LowerChar(c) ==
    IF c \in Range(UpperChars)
    THEN LowerChars[CHOOSE i \in 1..Len(UpperChars) : UpperChars[i] = c]
    ELSE c

\* ---------------------------------------------------------- str operations
\* str.lower
Lower(s) == [ i \in 1..Len(s) |-> LowerChar(s[i]) ]

RECURSIVE LStrip(_)
LStrip(s) == IF s # << >> /\ IsSpace(Head(s)) THEN LStrip(Tail(s)) ELSE s

RECURSIVE RStrip(_)
RStrip(s) ==
    IF s # << >> /\ IsSpace(s[Len(s)]) THEN RStrip(SubSeq(s, 1, Len(s) - 1)) ELSE s

\* str.strip()
Strip(s) == RStrip(LStrip(s))

\* str.split() with no separator: the maximal runs of non-space characters
RECURSIVE SplitFrom(_, _, _)
SplitFrom(s, cur, acc) ==
    IF s = << >>
    THEN IF cur = << >> THEN acc ELSE Append(acc, cur)
    ELSE IF IsSpace(Head(s))
         THEN SplitFrom(Tail(s), << >>, IF cur = << >> THEN acc ELSE Append(acc, cur))
         ELSE SplitFrom(Tail(s), Append(cur, Head(s)), acc)

Split(s) == SplitFrom(s, << >>, << >>)

\* " ".join(words)
RECURSIVE Join(_)
Join(words) ==
    IF words = << >> THEN << >>
    ELSE IF Len(words) = 1 THEN words[1]
    ELSE words[1] \o << " " >> \o Join(Tail(words))

\* a < b for str (lexicographic by code point; a proper prefix is smaller)
RECURSIVE StrLess(_, _)
StrLess(a, b) ==
    IF b = << >> THEN FALSE
    ELSE IF a = << >> THEN TRUE
    ELSE IF Head(a) = Head(b) THEN StrLess(Tail(a), Tail(b))
    ELSE Ord(Head(a)) < Ord(Head(b))

\* pat in s (substring test)
Contains(s, pat) ==
    \E i \in 1..(Len(s) - Len(pat) + 1) : SubSeq(s, i, i + Len(pat) - 1) = pat

\* seq[-n:]  (n = 0 gives the whole sequence: -0 is 0)
LastSlice(s, n) ==
    IF n = 0 THEN s
    ELSE IF n > 0
         THEN SubSeq(s, IF Len(s) - n + 1 > 1 THEN Len(s) - n + 1 ELSE 1, Len(s))
         ELSE SubSeq(s, 1 - n, Len(s))

\* seq[:n]
FirstSlice(s, n) ==
    IF n >= 0
    THEN SubSeq(s, 1, IF n < Len(s) THEN n ELSE Len(s))
    ELSE SubSeq(s, 1, Len(s) + n)

\* ------------------------------------------------------------------- texts
\* ai_loop.py STOP_WORDS
STOP_WORDS ==
    { <<"t", "h", "e">>,
      <<"a">>,
      <<"a", "n">>,
      <<"a", "n", "d">>,
      <<"o", "r">>,
      <<"b", "u", "t">>,
      <<"t", "o">>,
      <<"o", "f">>,
      <<"i", "n">>,
      <<"o", "n">>,
      <<"f", "o", "r">>,
      <<"w", "i", "t", "h">>,
      <<"i", "s">>,
      <<"i", "t">>,
      <<"t", "h", "a", "t">>,
      <<"t", "h", "i", "s">>,
      <<"i">>,
      <<"y", "o", "u">>,
      <<"m", "e">>,
      <<"m", "y">>,
      <<"y", "o", "u", "r">>,
      <<"w", "e">>,
      <<"o", "u", "r">>,
      <<"a", "r", "e">>,
      <<"b", "e">> }

\* ai_loop.py categorize_fact: the keyword lists
PreferencePatterns ==
    { <<"p", "r", "e", "f", "e", "r">>,
      <<"f", "a", "v", "o", "r", "i", "t", "e">>,
      <<"l", "i", "k", "e">>,
      <<"l", "o", "v", "e">>,
      <<"h", "a", "t", "e">>,
      <<"d", "o", "n", "'", "t", " ", "l", "i", "k", "e">> }
ProfilePatterns ==
    { <<"m", "y", " ", "n", "a", "m", "e">>,
      <<"i", " ", "a", "m", " ">>,
      <<"i", "'", "m", " ">>,
      <<"i", " ", "l", "i", "v", "e">>,
      <<"i", " ", "w", "o", "r", "k">>,
      <<"i", " ", "w", "a", "s", " ", "b", "o", "r", "n">> }
ProjectPatterns ==
    { <<"k", "-", "1", "4", "t">>,
      <<"d", "r", "o", "i", "d">>,
      <<"h", "a", "r", "d", "w", "a", "r", "e">>,
      <<"p", "r", "o", "j", "e", "c", "t">>,
      <<"r", "a", "s", "p", "b", "e", "r", "r", "y">>,
      <<"s", "e", "r", "v", "o">>,
      <<"p", "h", "a", "s", "e", " ", "1">>,
      <<"p", "h", "a", "s", "e", " ", "o", "n", "e">> }

\* Fact texts offered to the add operation.
TxtTea == <<"I", " ", "l", "i", "k", "e", " ", "t", "e", "a">>
TxtTeaUpper == <<"I", " ", "L", "I", "K", "E", " ", "T", "E", "A">>
TxtTeaSpaced == <<" ", "i", " ", " ", "l", "i", "k", "e", " ", "t", "e", "a", " ">>
TxtServo == <<"M", "y", " ", "p", "r", "o", "j", "e", "c", "t", " ", "u", "s", "e", "s", " ", "a", " ", "s", "e", "r", "v", "o">>
TxtArm == <<"s", "e", "r", "v", "o", " ", "a", "r", "m">>
TxtBlank == <<" ", " ">>
FactTexts == { TxtTea, TxtTeaUpper, TxtTeaSpaced, TxtServo, TxtArm, TxtBlank }

\* User messages offered to the relevance selection.
QryTea == <<"D", "o", " ", "y", "o", "u", " ", "l", "i", "k", "e", " ", "t", "e", "a", "?">>
QryServo == <<"s", "e", "r", "v", "o", " ", "p", "r", "o", "j", "e", "c", "t", " ", "d", "e", "t", "a", "i", "l", "s">>
QryNone == <<"w", "e", "a", "t", "h", "e", "r">>
QryArm == <<"s", "e", "r", "v", "o">>
Queries == { QryTea, QryServo, QryNone, QryArm }

\* -------------------------------------------------------------- log lines
\* A line of the log: kind "entry" is a JSON object with a string "fact"
\* (category "none": the key is absent); kind "junk" is text json.loads
\* rejects; kind "list" is a JSON value that is not an object (a list, as
\* [1, 2]); kind "nofact" is a JSON object without a "fact" key.
EntryLine(ts, fact, category) ==
    [ kind |-> "entry", ts |-> ts, fact |-> fact, category |-> category ]

JunkLine == [ kind |-> "junk", ts |-> 0, fact |-> << >>, category |-> "none" ]

ListLine == [ kind |-> "list", ts |-> 0, fact |-> << >>, category |-> "none" ]

NoFactLine == [ kind |-> "nofact", ts |-> 0, fact |-> << >>, category |-> "none" ]

\* a loader without the try/except around json.loads: no line is skipped
ParsesEveryLine(line) == line.kind \in { "entry", "junk", "list", "nofact" }

\* json.loads(line) succeeded
Parses(line) == line.kind # "junk"

\* the parsed line is an object with a string "fact"
WellFormed(line) == line.kind = "entry"

\* The file after f.write(text + "\n") in append mode: text starts right after
\* the last byte of the file, so it continues an unterminated last line, and
\* the line that results is not one JSON value.
AppendLine(lines, open, line) ==
    IF open /\ lines # << >>
    THEN Append(SubSeq(lines, 1, Len(lines) - 1), JunkLine)
    ELSE Append(lines, line)

\* The file after a write that was cut short: bytes "none" leaves it as it
\* was, "part" leaves an unparsable prefix of the line, "line" leaves the whole
\* JSON text without its newline.
CutAppend(lines, open, line, bytes) ==
    IF bytes = "none" THEN lines
    ELSE IF open /\ lines # << >>
         THEN Append(SubSeq(lines, 1, Len(lines) - 1), JunkLine)
         ELSE Append(lines, IF bytes = "line" THEN line ELSE JunkLine)

CutOpen(open, bytes) == IF bytes = "none" THEN open ELSE TRUE

\* --------------------------------------------------------- memory_store.py
\* An element of MemoryStore._cache: a dict object (oid is its identity).
CacheEntry(oid, line) ==
    [ oid |-> oid, kind |-> line.kind, ts |-> line.ts, fact |-> line.fact,
      category |-> line.category ]

\* json.dumps(e) + "\n" for a cache entry
DumpEntry(e) == [ kind |-> e.kind, ts |-> e.ts, fact |-> e.fact, category |-> e.category ]

\* e["fact"] is there and is a string
HasFact(e) == e.kind = "entry"

\* MemoryStore.__init__: the parsed lines, in order, each a new object
StoreLoad(lines) ==
    LET good == SelectSeq(lines, Parses)
    IN  [ i \in 1..Len(good) |-> CacheEntry(i, good[i]) ]

\* an object identity not in use
FreshOid(cache) ==
    CHOOSE n \in 1..(Len(cache) + 1) : \A i \in 1..Len(cache) : cache[i].oid # n

\* MemoryStore.list_facts
list_facts(cache, limit) == LastSlice(cache, limit)

\* MemoryStore.delete_index: [e for e in self._cache if e is not target]
WithoutTarget(cache, target) ==
    LET NotTarget(e) == e.oid # target.oid
    IN  SelectSeq(cache, NotTarget)

\* MemoryStore.delete_index: the rewritten file
DumpAll(cache) == [ i \in 1..Len(cache) |-> DumpEntry(cache[i]) ]

\* tuple comparison (n1, f1) > (n2, f2) of scored.sort(reverse=True)
ScoredGreater(x, y) == x[1] > y[1] \/ (x[1] = y[1] /\ StrLess(y[2], x[2]))

\* scored.sort(reverse=True): descending by the (count, fact) tuples
RECURSIVE InsertScored(_, _)
InsertScored(sorted, x) ==
    IF sorted = << >> THEN << x >>
    ELSE IF ScoredGreater(x, Head(sorted)) THEN << x >> \o sorted
    ELSE << Head(sorted) >> \o InsertScored(Tail(sorted), x)

RECURSIVE SortScored(_, _)
SortScored(s, acc) ==
    IF s = << >> THEN acc ELSE SortScored(Tail(s), InsertScored(acc, Head(s)))

\* order-preserving de-duplication: if f not in out: out.append(f)
RECURSIVE Dedup(_, _)
Dedup(s, out) ==
    IF s = << >> THEN out
    ELSE Dedup(Tail(s), IF Head(s) \in Range(out) THEN out ELSE Append(out, Head(s)))

\* MemoryStore.retrieve: words = {w.lower() for w in user_text.split() if len(w) > 3}
QueryWords(user_text) ==
    LET LongWord(w) == Len(w) > 3
    IN  { Lower(w) : w \in Range(SelectSeq(Split(user_text), LongWord)) }

\* MemoryStore.retrieve: overlap = words & set(e["fact"].lower().split())
Overlap(e, user_text) == QueryWords(user_text) \cap Range(Split(Lower(e.fact)))

\* MemoryStore.retrieve: scored, after scored.sort(reverse=True)
Scored(cache, user_text) ==
    LET Hit(e) == Overlap(e, user_text) # {}
        hits == SelectSeq(cache, Hit)
    IN  SortScored([ i \in 1..Len(hits) |->
                       << Cardinality(Overlap(hits[i], user_text)), hits[i].fact >> ],
                   << >>)

\* MemoryStore.retrieve: e["fact"].lower() raises (KeyError, TypeError) for an
\* entry of the cache that is not an object with a string "fact"
retrieve_raises(cache) == \E i \in 1..Len(cache) : ~HasFact(cache[i])

\* MemoryStore.retrieve
retrieve(cache, user_text, max_items) ==
    LET cut == FirstSlice(Scored(cache, user_text), max_items)
        top == [ i \in 1..Len(cut) |-> cut[i][2] ]
        recent == LET r == LastSlice(cache, max_items)
                  IN  [ i \in 1..Len(r) |-> r[i].fact ]
    IN  FirstSlice(Dedup(IF top = << >> THEN recent ELSE top, << >>), max_items)

\* --------------------------------------------------------------- ai_loop.py
\* norm
norm(text) == Join(Split(Lower(text)))

\* categorize_fact
categorize_fact(fact) ==
    LET f == Lower(fact)
    IN  IF \E p \in PreferencePatterns : Contains(f, p) THEN "preference"
        ELSE IF \E p \in ProfilePatterns : Contains(f, p) THEN "profile"
        ELSE IF \E p \in ProjectPatterns : Contains(f, p) THEN "project"
        ELSE "misc"

\* limit=None, and limit=n
None == << >>
Some(n) == << n >>

\* load_memory: items[-limit:] if limit else items
load_memory(lines, limit) ==
    LET items == SelectSeq(lines, Parses)
    IN  IF limit # None /\ limit[1] # 0 THEN LastSlice(items, limit[1]) ELSE items

\* memory_exists
memory_exists(lines, fact) ==
    \E obj \in Range(load_memory(lines, None)) : norm(obj.fact) = norm(fact)

\* memory_exists: obj.get raises (AttributeError) at a parsed line that is not
\* an object, unless an earlier line already matched
memory_exists_raises(lines, fact) ==
    LET items == load_memory(lines, None)
    IN  \E i \in 1..Len(items) :
            /\ items[i].kind = "list"
            /\ \A j \in 1..(i - 1) : norm(items[j].fact) # norm(fact)

\* prune_memory_if_needed: the file it leaves
prune_memory_if_needed(lines, max_facts) ==
    LET items == load_memory(lines, None)
    IN  IF Len(items) <= max_facts THEN lines ELSE LastSlice(items, max_facts)

\* tokenize
tokenize(msg) ==
    LET spaced == [ i \in 1..Len(msg) |->
                      IF IsAlnum(msg[i]) THEN LowerChar(msg[i]) ELSE " " ]
        NotStop(w) == w \notin STOP_WORDS
    IN  SelectSeq(Split(spaced), NotStop)

\* select_relevant: overlap = len(user_tokens & fact_tokens)
TokenOverlap(m, user_msg) ==
    Cardinality(Range(tokenize(user_msg)) \cap Range(tokenize(m.fact)))

\* select_relevant: base, in tenths (overlap + 0.1, + 0.3 for a preference)
Base(m, user_msg) ==
    10 * TokenOverlap(m, user_msg) + 1 + (IF m.category = "preference" THEN 3 ELSE 0)

\* the sort of select_relevant putting the lowest base first
LowerBase(x, y) == x[1] < y[1]

\* select_relevant: x[0] of one pair greater than that of another
HigherBase(x, y) == x[1] > y[1]

\* scored.sort(key=lambda x: x[0], reverse=True): descending by base, and
\* stable: pairs of equal base keep the order they had in memory_items
RECURSIVE InsertByBase(_, _)
InsertByBase(sorted, x) ==
    IF sorted = << >> THEN << x >>
    ELSE IF HigherBase(x, Head(sorted)) THEN << x >> \o sorted
    ELSE << Head(sorted) >> \o InsertByBase(Tail(sorted), x)

RECURSIVE SortByBase(_, _)
SortByBase(s, acc) ==
    IF s = << >> THEN acc ELSE SortByBase(Tail(s), InsertByBase(acc, Head(s)))

\* select_relevant: the loop over the sorted (base, m) pairs
RECURSIVE SelectLoop(_, _, _, _)
SelectLoop(scored, selected, npref, max_total) ==
    IF scored = << >> THEN selected
    ELSE IF Head(scored)[1] <= 1 /\ Len(selected) >= npref
         THEN SelectLoop(Tail(scored), selected, npref, max_total)
         ELSE LET sel == Append(selected, Head(scored)[2])
              IN  IF Len(sel) >= max_total THEN sel
                  ELSE SelectLoop(Tail(scored), sel, npref, max_total)

\* select_relevant: the loop over pref
RECURSIVE AddPrefs(_, _, _)
AddPrefs(pref, selected, max_total) ==
    IF pref = << >> THEN selected
    ELSE AddPrefs(Tail(pref),
                  IF Head(pref) \notin Range(selected) /\ Len(selected) < max_total
                  THEN Append(selected, Head(pref)) ELSE selected,
                  max_total)

\* select_relevant: m["fact"] raises (KeyError, TypeError) for an item that is
\* not an object with a string "fact"
select_relevant_raises(memory_items) ==
    \E i \in 1..Len(memory_items) : ~HasFact(memory_items[i])

\* select_relevant
select_relevant(memory_items, user_msg, max_total) ==
    IF memory_items = << >> THEN << >>
    ELSE LET scored == [ i \in 1..Len(memory_items) |->
                           << Base(memory_items[i], user_msg), memory_items[i] >> ]
             IsPref(m) == m.category = "preference"
             pref == LastSlice(SelectSeq(memory_items, IsPref), PrefKeep)
             sorted == SortByBase(scored, << >>)
         IN  AddPrefs(pref, SelectLoop(sorted, << >>, Len(pref), max_total), max_total)

\* ------------------------------------------------------------------- state
VARIABLES
    program,      \* "core_loop" (owns a MemoryStore) or "ai_loop"
    file,         \* memory/long_term.jsonl: its lines, in order
    fileOpen,     \* TRUE when the last line of the file has no "\n" yet
    cache,        \* MemoryStore._cache (core_loop)
    max_facts,    \* cfg["memory_max_facts"] (ai_loop)
    adds,         \* calls of the add operation that read the clock so far
    crashes,      \* process crashes so far
    sound,        \* the store was opened on a log whose lines are all
                  \* well-formed, and no call has raised since
    deletes,      \* entries removed by delete_index so far
    last          \* the last call: its arguments, its outcome, the state before
                  \* it and, for /forget, the listing a /mem just before printed

vars == << program, file, fileOpen, cache, max_facts, adds, crashes, sound, deletes, last >>

\* ai_loop.py DEFAULT_CONFIG["memory_max_facts"]
DefaultMaxFacts == 300

\* Values of memory_max_facts that config.json may hold.
MaxFactsChoices == { 0, 1, 2, DefaultMaxFacts }

Limits == 0..MaxLimit
Indexes == (-1)..MaxAdds

Last(op, text, num, limit, raised, ret, out) ==
    [ op |-> op, text |-> text, num |-> num, limit |-> limit, raised |-> raised,
      ret |-> ret, out |-> out,
      afterMem |-> op = "cmd_forget" /\ last.op = "cmd_mem",
      shown |-> IF op = "cmd_forget" /\ last.op = "cmd_mem" THEN last.out ELSE << >>,
      preCache |-> cache, preFile |-> file, preOpen |-> fileOpen ]

AllWellFormed(lines) == \A i \in 1..Len(lines) : WellFormed(lines[i])

NoCall ==
    [ op |-> "init", text |-> << >>, num |-> 0, limit |-> None, raised |-> FALSE,
      ret |-> FALSE, out |-> << >>, afterMem |-> FALSE, shown |-> << >>,
      preCache |-> << >>, preFile |-> << >>, preOpen |-> FALSE ]

\* A fresh install: no log file yet.
Init ==
    /\ program \in { "core_loop", "ai_loop" }
    /\ file = << >>
    /\ fileOpen = FALSE
    /\ cache = << >>
    /\ max_facts \in (IF program = "ai_loop" THEN MaxFactsChoices ELSE { DefaultMaxFacts })
    /\ adds = 0
    /\ crashes = 0
    /\ sound = TRUE
    /\ deletes = 0
    /\ last = NoCall

\* ------------------------------------------------- MemoryStore (core_loop)
\* MemoryStore.add_fact(f), the write succeeding: the store afterwards
AddFactCall(f) ==
    LET fact == Strip(f)
        entry == [ oid |-> FreshOid(cache), kind |-> "entry", ts |-> adds + 1,
                   fact |-> fact, category |-> "none" ]
    IN  IF fact = << >>
        THEN UNCHANGED << file, fileOpen, cache, adds >>
        ELSE /\ adds < MaxAdds
             /\ adds' = adds + 1
             /\ file' = AppendLine(file, fileOpen, DumpEntry(entry))
             /\ fileOpen' = FALSE
             /\ cache' = Append(cache, entry)

\* MemoryStore.add_fact(f)
AddFact(f) ==
    /\ program = "core_loop"
    /\ AddFactCall(f)
    /\ last' = Last("add_fact", f, 0, None, FALSE, FALSE, << >>)
    /\ UNCHANGED << program, max_facts, crashes, sound, deletes >>

\* MemoryStore.add_fact(f), open() or write() raising after `bytes` of the line
AddFactFails(f, bytes) ==
    /\ program = "core_loop"
    /\ Strip(f) # << >>
    /\ adds < MaxAdds
    /\ adds' = adds + 1
    /\ LET entry == [ oid |-> FreshOid(cache), kind |-> "entry", ts |-> adds + 1,
                      fact |-> Strip(f), category |-> "none" ]
       IN  /\ file' = CutAppend(file, fileOpen, DumpEntry(entry), bytes)
           /\ fileOpen' = CutOpen(fileOpen, bytes)
    /\ sound' = FALSE
    /\ last' = Last("add_fact", f, 0, None, TRUE, FALSE, << >>)
    /\ UNCHANGED << program, cache, max_facts, crashes, deletes >>

\* seq[i] for a Python index (a negative index counts from the end)
PyIndex(s, i) == IF i >= 0 THEN s[i + 1] ELSE s[Len(s) + i + 1]

\* delete_index measuring the index against the 20 facts that /mem lists
\* instead of its own listing
OutOfBoundsOfMemWindow(c, idx) == idx < 0 \/ idx >= Len(list_facts(c, MemListLimit))

\* MemoryStore.delete_index: idx < 0 or idx >= len(facts)
OutOfBounds(c, idx) == idx < 0 \/ idx >= Len(list_facts(c, DefaultListLimit))

\* MemoryStore.delete_index: the cache it assigns for an index it accepts
DeleteTarget(c, idx) == WithoutTarget(c, PyIndex(list_facts(c, DefaultListLimit), idx))

\* MemoryStore.delete_index(idx), the rewrite succeeding: the store afterwards
\* and the value returned
DeleteIndexCall(idx, op) ==
    IF OutOfBounds(cache, idx)
    THEN /\ UNCHANGED << file, fileOpen, cache, deletes >>
         /\ last' = Last(op, << >>, idx, None, FALSE, FALSE, << >>)
    ELSE /\ deletes < MaxDeletes
         /\ deletes' = deletes + 1
         /\ cache' = DeleteTarget(cache, idx)
         /\ file' = DumpAll(cache')
         /\ fileOpen' = FALSE
         /\ last' = Last(op, << >>, idx, None, FALSE, TRUE, << >>)

\* MemoryStore.delete_index(idx)
DeleteIndex(idx) ==
    /\ program = "core_loop"
    /\ DeleteIndexCall(idx, "delete_index")
    /\ UNCHANGED << program, max_facts, adds, crashes, sound >>

\* MemoryStore.delete_index(idx), the rewrite raising: at open() the file is
\* untouched, at write() it has been truncated by open(path, "w")
DeleteIndexFails(idx, point) ==
    /\ program = "core_loop"
    /\ ~OutOfBounds(cache, idx)
    /\ deletes < MaxDeletes
    /\ deletes' = deletes + 1
    /\ cache' = DeleteTarget(cache, idx)
    /\ IF point = "open"
       THEN UNCHANGED << file, fileOpen >>
       ELSE file' = << >> /\ fileOpen' = FALSE
    /\ sound' = FALSE
    /\ last' = Last("delete_index", << >>, idx, None, TRUE, FALSE, << >>)
    /\ UNCHANGED << program, max_facts, adds, crashes >>

\* MemoryStore.list_facts(limit)
ListFacts(limit) ==
    /\ program = "core_loop"
    /\ last' = Last("list_facts", << >>, limit, None, FALSE, FALSE, list_facts(cache, limit))
    /\ UNCHANGED << program, file, fileOpen, cache, max_facts, adds, crashes, sound, deletes >>

\* MemoryStore.retrieve(user_text, max_items)
Retrieve(user_text, max_items) ==
    /\ program = "core_loop"
    /\ last' = IF retrieve_raises(cache)
               THEN Last("retrieve", user_text, max_items, None, TRUE, FALSE, << >>)
               ELSE Last("retrieve", user_text, max_items, None, FALSE, FALSE,
                         retrieve(cache, user_text, max_items))
    /\ UNCHANGED << program, file, fileOpen, cache, max_facts, adds, crashes, sound, deletes >>

\* The process ends and core_loop starts again: memory = MemoryStore()
Restart ==
    /\ program = "core_loop"
    /\ cache' = StoreLoad(file)
    /\ sound' = AllWellFormed(file)
    /\ last' = Last("open", << >>, 0, None, FALSE, FALSE, << >>)
    /\ UNCHANGED << program, file, fileOpen, max_facts, adds, crashes, deletes >>

\* The process is killed inside add_fact's write, after `bytes` of the line
\* reached the file, and core_loop starts again
CrashInAddFact(f, bytes) ==
    /\ program = "core_loop"
    /\ Strip(f) # << >>
    /\ adds < MaxAdds
    /\ crashes < MaxCrashes
    /\ adds' = adds + 1
    /\ crashes' = crashes + 1
    /\ file' = CutAppend(file, fileOpen, EntryLine(adds + 1, Strip(f), "none"), bytes)
    /\ fileOpen' = CutOpen(fileOpen, bytes)
    /\ cache' = StoreLoad(file')
    /\ sound' = AllWellFormed(file')
    /\ last' = Last("open", f, 0, None, FALSE, FALSE, << >>)
    /\ UNCHANGED << program, max_facts, deletes >>

\* ----------------------------------------------------------------- ai_loop
\* append_memory(f): the duplicate check, the append, prune_memory_if_needed
AppendMemory(f) ==
    /\ program = "ai_loop"
    /\ LET fact == Strip(f)
           line == EntryLine(adds + 1, fact, categorize_fact(fact))
       IN  IF fact # << >> /\ memory_exists_raises(file, fact)
           THEN /\ UNCHANGED << file, fileOpen, adds >>
                /\ last' = Last("append_memory", f, 0, None, TRUE, FALSE, << >>)
           ELSE IF fact = << >> \/ memory_exists(file, fact)
           THEN /\ UNCHANGED << file, fileOpen, adds >>
                /\ last' = Last("append_memory", f, 0, None, FALSE, FALSE, << >>)
           ELSE /\ adds < MaxAdds
                /\ adds' = adds + 1
                /\ file' = prune_memory_if_needed(AppendLine(file, fileOpen, line), max_facts)
                /\ fileOpen' = FALSE
                /\ last' = Last("append_memory", f, 0, None, FALSE, TRUE, << >>)
    /\ UNCHANGED << program, cache, max_facts, crashes, sound, deletes >>

\* load_memory(limit)
LoadMemory(limit) ==
    /\ program = "ai_loop"
    /\ last' = Last("load_memory", << >>, 0, limit, FALSE, FALSE, load_memory(file, limit))
    /\ UNCHANGED << program, file, fileOpen, cache, max_facts, adds, crashes, sound, deletes >>

\* select_relevant(load_memory(), user_msg, max_total)
SelectRelevant(user_msg, max_total) ==
    /\ program = "ai_loop"
    /\ last' = IF select_relevant_raises(load_memory(file, None))
               THEN Last("select_relevant", user_msg, max_total, None, TRUE, FALSE, << >>)
               ELSE Last("select_relevant", user_msg, max_total, None, FALSE, FALSE,
                         select_relevant(load_memory(file, None), user_msg, max_total))
    /\ UNCHANGED << program, file, fileOpen, cache, max_facts, adds, crashes, sound, deletes >>

\* The process is killed inside append_memory's write, after `bytes` of the
\* line reached the file
CrashInAppendMemory(f, bytes) ==
    /\ program = "ai_loop"
    /\ Strip(f) # << >>
    /\ ~memory_exists_raises(file, Strip(f))
    /\ ~memory_exists(file, Strip(f))
    /\ adds < MaxAdds
    /\ crashes < MaxCrashes
    /\ adds' = adds + 1
    /\ crashes' = crashes + 1
    /\ file' = CutAppend(file, fileOpen,
                         EntryLine(adds + 1, Strip(f), categorize_fact(Strip(f))), bytes)
    /\ fileOpen' = CutOpen(fileOpen, bytes)
    /\ sound' = AllWellFormed(file')
    /\ last' = Last("open", f, 0, None, FALSE, FALSE, << >>)
    /\ UNCHANGED << program, cache, max_facts, deletes >>

\* ------------------------------------------------------ core_loop commands
\* "/remember <words>": fact = " ".join(parts[1:]).strip(); add_fact if any
CmdRemember(words) ==
    /\ program = "core_loop"
    /\ LET fact == Strip(Join(Split(words)))
       IN  IF fact = << >>
           THEN UNCHANGED << file, fileOpen, cache, adds >>
           ELSE AddFactCall(fact)
    /\ last' = Last("cmd_remember", words, 0, None, FALSE, FALSE, << >>)
    /\ UNCHANGED << program, max_facts, crashes, sound, deletes >>

\* "/mem": prints [i] fact for i, fct in enumerate(memory.list_facts(20))
CmdMem ==
    /\ program = "core_loop"
    /\ last' = Last("cmd_mem", << >>, 0, None,
                    \E e \in Range(list_facts(cache, MemListLimit)) : ~HasFact(e),
                    FALSE, list_facts(cache, MemListLimit))
    /\ UNCHANGED << program, file, fileOpen, cache, max_facts, adds, crashes, sound, deletes >>

\* "/forget <digits>": ok = memory.delete_index(int(parts[1]))
CmdForget(idx) ==
    /\ program = "core_loop"
    /\ idx >= 0
    /\ DeleteIndexCall(idx, "cmd_forget")
    /\ UNCHANGED << program, max_facts, adds, crashes, sound >>

\* A store that already holds n facts, remembered by earlier runs ("note 07",
\* written before this process started: ts <= 0).
NoteText(i) ==
    << "n", "o", "t", "e", " ", DigitChars[(i \div 10) + 1], DigitChars[(i % 10) + 1] >>

NoteLog(n) == [ i \in 1..n |-> EntryLine(i - n, NoteText(i), "none") ]

\* Sizes of the stored log around the two listing windows.
StoredChoices ==
    { 0, 1, MemListLimit + 1, DefaultListLimit + 1 }

\* Indexes around the two listing windows.
WindowIndexes ==
    { -1, 0, MemListLimit, DefaultListLimit - 1, DefaultListLimit }

InitCli ==
    /\ program = "core_loop"
    /\ \E n \in StoredChoices : file = NoteLog(n)
    /\ fileOpen = FALSE
    /\ cache = StoreLoad(file)
    /\ max_facts = DefaultMaxFacts
    /\ adds = 0
    /\ crashes = 0
    /\ sound = TRUE
    /\ deletes = 0
    /\ last = NoCall

NextCli ==
    \/ \E words \in { TxtTeaSpaced, TxtBlank } : CmdRemember(words)
    \/ CmdMem
    \/ \E idx \in WindowIndexes : CmdForget(idx)
    \/ \E idx \in WindowIndexes : DeleteIndex(idx)
    \/ \E idx \in WindowIndexes, point \in { "open", "write" } : DeleteIndexFails(idx, point)

SpecCli == InitCli /\ [][NextCli]_vars

\* A store that already holds facts remembered by earlier runs: every log of
\* at most MaxStored lines over three fact texts, as add_fact (core_loop) or
\* append_memory (ai_loop) writes them.
StoredTexts == { TxtTea, TxtServo, TxtArm }

RECURSIVE LogsUpTo(_)
LogsUpTo(n) ==
    IF n = 0 THEN { << >> }
    ELSE LET shorter == LogsUpTo(n - 1)
         IN  shorter \cup { Append(l, t) : l \in shorter, t \in StoredTexts }

WrittenLog(prog, texts) ==
    [ i \in 1..Len(texts) |->
        EntryLine(i - Len(texts), texts[i],
                  IF prog = "ai_loop" THEN categorize_fact(texts[i]) ELSE "none") ]

InitSelect ==
    /\ program \in { "core_loop", "ai_loop" }
    /\ \E texts \in LogsUpTo(MaxStored) : file = WrittenLog(program, texts)
    /\ fileOpen = FALSE
    /\ cache = StoreLoad(file)
    /\ max_facts = DefaultMaxFacts
    /\ adds = 0
    /\ crashes = 0
    /\ sound = TRUE
    /\ deletes = 0
    /\ last = NoCall

NextSelect ==
    \/ \E q \in Queries, k \in Limits : Retrieve(q, k)
    \/ \E q \in Queries, k \in Limits : SelectRelevant(q, k)

SpecSelect == InitSelect /\ [][NextSelect]_vars

\* A log that something else wrote into: at most one fact written by the
\* program, and one line that is not an object with a string "fact", before
\* or after it.
ForeignLogs(prog) ==
    LET own == WrittenLog(prog, << TxtTea >>)
    IN  UNION { { << l >>, own \o << l >>, << l >> \o own } :
                l \in { JunkLine, ListLine, NoFactLine } }

InitForeign ==
    /\ program \in { "core_loop", "ai_loop" }
    /\ file \in ForeignLogs(program)
    /\ fileOpen = FALSE
    /\ cache = StoreLoad(file)
    /\ max_facts = DefaultMaxFacts
    /\ adds = 0
    /\ crashes = 0
    /\ sound = AllWellFormed(file)
    /\ deletes = 0
    /\ last = NoCall

NextForeign ==
    \/ \E f \in { TxtTea, TxtArm } : AddFact(f)
    \/ \E idx \in Indexes : DeleteIndex(idx)
    \/ \E limit \in Limits : ListFacts(limit)
    \/ \E q \in { QryTea, QryNone }, k \in Limits : Retrieve(q, k)
    \/ CmdMem
    \/ Restart
    \/ \E f \in { TxtTea, TxtArm } : AppendMemory(f)
    \/ \E limit \in { None } \cup { Some(n) : n \in Limits } : LoadMemory(limit)
    \/ \E q \in { QryTea, QryNone }, k \in Limits : SelectRelevant(q, k)

SpecForeign == InitForeign /\ [][NextForeign]_vars

\* Runs in which facts are added, the process is killed inside an append, and
\* the log is loaded again.
NextCrash ==
    \/ \E f \in StoredTexts : AddFact(f)
    \/ \E f \in StoredTexts, bytes \in { "part", "line" } : CrashInAddFact(f, bytes)
    \/ Restart
    \/ \E f \in StoredTexts : AppendMemory(f)
    \/ \E f \in StoredTexts, bytes \in { "part", "line" } : CrashInAppendMemory(f, bytes)
    \/ LoadMemory(None)

SpecCrash == Init /\ [][NextCrash]_vars

\* ----------------------------------------------------------- specification
Next ==
    \/ \E f \in FactTexts : AddFact(f)
    \/ \E f \in FactTexts, bytes \in { "none", "part", "line" } : AddFactFails(f, bytes)
    \/ \E idx \in Indexes : DeleteIndex(idx)
    \/ \E idx \in Indexes, point \in { "open", "write" } : DeleteIndexFails(idx, point)
    \/ \E limit \in Limits : ListFacts(limit)
    \/ \E q \in Queries, k \in Limits : Retrieve(q, k)
    \/ Restart
    \/ \E f \in FactTexts, bytes \in { "part", "line" } : CrashInAddFact(f, bytes)
    \/ \E f \in FactTexts : AppendMemory(f)
    \/ \E limit \in { None } \cup { Some(n) : n \in Limits } : LoadMemory(limit)
    \/ \E q \in Queries, k \in Limits : SelectRelevant(q, k)
    \/ \E f \in FactTexts, bytes \in { "part", "line" } : CrashInAppendMemory(f, bytes)

Spec == Init /\ [][Next]_vars

\* ------------------------------------------------------------------ claims
\* The facts the running program holds: the cache of the MemoryStore, or what
\* load_memory() reads from the log.
Stored == IF program = "core_loop" THEN cache ELSE load_memory(file, None)

StoredBefore == IF program = "core_loop" THEN last.preCache ELSE load_memory(last.preFile, None)

Texts(s) == [ i \in 1..Len(s) |-> s[i].fact ]

\* The n most recently added of s, oldest first.
MostRecent(s, n) == SubSeq(s, IF Len(s) - n + 1 > 1 THEN Len(s) - n + 1 ELSE 1, Len(s))

\* Position of x in s (0 when absent).
Pos(s, x) == IF \E i \in 1..Len(s) : s[i] = x THEN CHOOSE i \in 1..Len(s) : s[i] = x ELSE 0

FileUntouched == file = last.preFile /\ fileOpen = last.preOpen

\* C1: in MemoryStore.add_fact and in ai_loop.append_memory, after adding a
\* fact text to a store exactly one stored fact has that normalized text, and
\* an add of a text whose normalized form is already stored reports a
\* duplicate and writes nothing to the log.
C1_AddIsIdempotent ==
    (last.op \in { "add_fact", "append_memory" } /\ sound /\ ~last.preOpen
       /\ Strip(last.text) # << >>)
    => LET Same(s) == { i \in 1..Len(s) : norm(s[i].fact) = norm(last.text) }
       IN  /\ Cardinality(Same(Stored)) = 1
           /\ Same(StoredBefore) # {} => (FileUntouched /\ ~last.ret)

\* C2: when the write to the log fails in add_fact or delete_index, the error
\* reaches the caller and the cache is what it was before the call.
C2_FailedWriteKeepsCache ==
    (last.op \in { "add_fact", "delete_index" } /\ last.raised) => cache = last.preCache

\* C3: for a MemoryStore opened on a log whose lines are all well-formed, after
\* add_fact and delete_index calls that all completed without error, parsing
\* the log line by line gives the cache: same facts, same order, same count.
C3_LogMatchesCache ==
    (program = "core_loop" /\ sound) => DumpAll(StoreLoad(file)) = DumpAll(cache)

\* C5: after delete_index(i) with i in bounds, no listed fact has the deleted
\* fact's text, exactly one entry is gone, the others keep their order, and the
\* rewritten log holds the same entries as the cache.
C5_DeleteRemovesTheFact ==
    (last.op = "delete_index" /\ sound /\ last.ret)
    => LET pre == last.preCache
           target == PyIndex(list_facts(pre, DefaultListLimit), last.num)
       IN  /\ target.fact \notin Range(Texts(cache))
           /\ Len(cache) = Len(pre) - 1
           /\ \E j \in 1..Len(pre) :
                  cache = SubSeq(pre, 1, j - 1) \o SubSeq(pre, j + 1, Len(pre))
           /\ file = DumpAll(cache)

\* C7: list_facts(n) and load_memory(n), n >= 0, return exactly the last
\* min(n, number of stored facts) facts, oldest first, and change nothing.
C7_ListingIsLastN ==
    /\ (last.op = "list_facts" /\ sound)
         => (last.out = MostRecent(cache, last.num) /\ cache = last.preCache /\ FileUntouched)
    /\ (last.op = "load_memory" /\ sound /\ last.limit # None)
         => (last.out = MostRecent(Stored, last.limit[1]) /\ FileUntouched)

\* C8: when no stored fact shares a token with the query, retrieve(Q, k) and
\* select_relevant(items, Q, k) return exactly the k most recently added facts,
\* or all stored facts when fewer than k are stored.
C8_FallbackIsMostRecent ==
    /\ (last.op = "retrieve" /\ sound
          /\ \A i \in 1..Len(cache) : Overlap(cache[i], last.text) = {})
         => /\ Range(last.out) = Range(Texts(MostRecent(cache, last.num)))
            /\ Len(last.out) = Len(MostRecent(cache, last.num))
    /\ (last.op = "select_relevant" /\ sound
          /\ \A i \in 1..Len(Stored) : TokenOverlap(Stored[i], last.text) = 0)
         => /\ Range(last.out) = Range(MostRecent(Stored, last.num))
            /\ Len(last.out) = Len(MostRecent(Stored, last.num))

\* C9: when at least one but fewer than k stored facts overlap the query,
\* retrieve(query, k) returns min(k, number of stored facts) facts: the
\* overlapping facts in ranked order, then the most recently added facts not
\* yet selected; with 'I like tea' then 'My project uses a servo' stored,
\* retrieve('servo project details', 2) is ['My project uses a servo', 'I like tea'].
C9_PartialFallback ==
    (last.op = "retrieve" /\ sound)
    => LET ranked == Scored(cache, last.text)
           k == last.num
           n == IF k < Len(cache) THEN k ELSE Len(cache)
       IN  /\ (Len(ranked) >= 1 /\ Len(ranked) < k)
                => /\ Len(last.out) = n
                   /\ \A i \in 1..Len(ranked) : i <= Len(last.out) /\ last.out[i] = ranked[i][2]
                   /\ \A i \in (Len(ranked) + 1)..Len(last.out) :
                          last.out[i] \in Range(Texts(cache))
           /\ (Texts(cache) = << TxtTea, TxtServo >> /\ last.text = QryServo /\ k = 2)
                => last.out = << TxtServo, TxtTea >>

\* C10: of two stored facts with equal relevance score that both appear in the
\* result of retrieve or select_relevant, the more recently added one comes
\* first.
C10_TiesByRecency ==
    /\ (last.op = "retrieve" /\ sound)
         => \A i, j \in 1..Len(cache) :
                (/\ i < j
                 /\ cache[i].fact # cache[j].fact
                 /\ Cardinality(Overlap(cache[i], last.text)) > 0
                 /\ Cardinality(Overlap(cache[i], last.text))
                      = Cardinality(Overlap(cache[j], last.text))
                 /\ Pos(last.out, cache[i].fact) > 0
                 /\ Pos(last.out, cache[j].fact) > 0)
                => Pos(last.out, cache[j].fact) < Pos(last.out, cache[i].fact)
    /\ (last.op = "select_relevant" /\ sound)
         => \A i, j \in 1..Len(Stored) :
                (/\ i < j
                 /\ Base(Stored[i], last.text) = Base(Stored[j], last.text)
                 /\ Pos(last.out, Stored[i]) > 0
                 /\ Pos(last.out, Stored[j]) > 0)
                => Pos(last.out, Stored[j]) < Pos(last.out, Stored[i])

\* C4: /forget i, with i an index that the /mem just before printed, removes
\* exactly the fact /mem showed at index i.
C4_ForgetRemovesShown ==
    (last.op = "cmd_forget" /\ last.afterMem /\ last.num < Len(last.shown))
    => /\ last.ret
       /\ Len(cache) = Len(last.preCache) - 1
       /\ \A i \in 1..Len(cache) : cache[i] # last.shown[last.num + 1]

\* C6: delete_index(i) with i < 0 or i >= the number of facts in the listing
\* returns False without raising and leaves the cache and the log as they
\* were; with i in bounds it returns True.
C6_DeleteIndexBounds ==
    last.op = "delete_index"
    => LET listed == IF Len(last.preCache) < DefaultListLimit
                     THEN Len(last.preCache) ELSE DefaultListLimit
       IN  IF last.num < 0 \/ last.num >= listed
           THEN ~last.raised /\ ~last.ret /\ cache = last.preCache /\ FileUntouched
           ELSE ~last.raised => last.ret

\* C6, reached: a store of more facts than the listing holds, and an index
\* past the listing but inside the cache, refused.
C6_Witness ==
    /\ last.op = "delete_index"
    /\ last.num >= DefaultListLimit
    /\ last.num < Len(last.preCache)
    /\ ~last.ret
    /\ cache = last.preCache

\* F2 at a position of out implies F1 at an earlier position
NeverBefore(out, F1, F2) ==
    \A b \in 1..Len(out) : out[b] = F2 => \E a \in 1..(b - 1) : out[a] = F1

\* C11: of two stored facts without the preference category, the one sharing
\* strictly more tokens with the query is never ranked after the other and is
\* never left out while the other is returned, in retrieve and in
\* select_relevant (the overlap as each of the two counts it).
C11_RelevanceMonotone ==
    /\ last.op = "retrieve"
         => \A i, j \in 1..Len(cache) :
                Cardinality(Overlap(cache[i], last.text))
                    > Cardinality(Overlap(cache[j], last.text))
                => NeverBefore(last.out, cache[i].fact, cache[j].fact)
    /\ last.op = "select_relevant"
         => \A i, j \in 1..Len(Stored) :
                (/\ TokenOverlap(Stored[i], last.text) > TokenOverlap(Stored[j], last.text)
                 /\ Stored[i].category # "preference"
                 /\ Stored[j].category # "preference")
                => NeverBefore(last.out, Stored[i], Stored[j])

\* C11, reached: select_relevant returned two facts of different non-zero
\* overlap, neither a preference, the one of lower overlap stored first.
C11_Witness ==
    /\ last.op = "select_relevant"
    /\ \E i, j \in 1..Len(Stored) :
           /\ j < i
           /\ TokenOverlap(Stored[i], last.text) > TokenOverlap(Stored[j], last.text)
           /\ TokenOverlap(Stored[j], last.text) > 0
           /\ Stored[i].category # "preference"
           /\ Stored[j].category # "preference"
           /\ Pos(last.out, Stored[i]) > 0
           /\ Pos(last.out, Stored[j]) > 0

\* C12: for every query and every k >= 0, retrieve(query, k) and
\* select_relevant(items, query, k) return at most k facts and no fact twice.
C12_AtMostKDistinct ==
    last.op \in { "retrieve", "select_relevant" }
    => /\ Len(last.out) <= last.num
       /\ \A a, b \in 1..Len(last.out) : a # b => last.out[a] # last.out[b]

\* C13: on a log holding lines that are not a JSON object with a string
\* "fact" (unparsable text, a JSON value of another shape, an object without
\* "fact"), loading and every later listing, relevance selection, duplicate
\* check, add and delete complete without raising.
C13_MalformedLinesNeverRaise ==
    last.op \in { "open", "list_facts", "load_memory", "retrieve", "select_relevant",
                  "add_fact", "append_memory", "delete_index", "cmd_mem" }
    => ~last.raised

\* The log is n well-formed lines followed by one line that was cut off.
CutOffLog ==
    /\ fileOpen
    /\ file # << >>
    /\ AllWellFormed(SubSeq(file, 1, Len(file) - 1))

\* What the load after the crash produced, as log lines.
Loaded == IF program = "core_loop" THEN DumpAll(cache) ELSE last.out

JustLoaded ==
    \/ program = "core_loop" /\ last.op = "open"
    \/ program = "ai_loop" /\ last.op = "load_memory" /\ last.limit = None

C15_PruneToCap ==
    (last.op = "append_memory" /\ ~last.raised /\ sound /\ ~last.preOpen)
    => LET added == Texts(StoredBefore)
                      \o (IF last.ret THEN << Strip(last.text) >> ELSE << >>)
       IN  /\ Len(Stored) <= max_facts
           /\ Texts(Stored) = MostRecent(added, max_facts)

\* C16: when the log ends with a partial line that has no newline, a fact f
\* added with success after loading is among the facts a reload of the log
\* gives, and in core_loop the reloaded facts are the cache.
C16_AddAfterCrashIsDurable ==
    (/\ last.op \in { "add_fact", "append_memory" }
     /\ ~last.raised
     /\ IF program = "core_loop" THEN Strip(last.text) # << >> ELSE last.ret
     /\ last.preOpen
     /\ last.preFile # << >>
     /\ ~Parses(last.preFile[Len(last.preFile)]))
    => /\ Strip(last.text) \in Range(Texts(IF program = "core_loop"
                                            THEN StoreLoad(file)
                                            ELSE load_memory(file, None)))
       /\ program = "core_loop" => DumpAll(StoreLoad(file)) = DumpAll(cache)

=============================================================================
